---- MODULE Spec2Model ----
(***************************************************************************)
(* A model of gocaveman/webresource: the module dependency resolver        *)
(* (Resolve), the in-memory file tree (FileSet, fileEntry, file) and the   *)
(* walker (Walk, walkDir).                                                 *)
(***************************************************************************)
EXTENDS Integers, Sequences, FiniteSets, TLC

\* ------------------------------------------------------------------ bounds

\* Number of modules of a requires graph.  A module is identified with its
\* Name(): names are unique within one resolution, and the integers order as
\* the names do under Go's string comparison.
NumModules == 3

Modules == 1..NumModules

\* ------------------------------------------------------------------ state

VARIABLES
    requires,   \* requires[m]: the slice m.Requires() returns, in its order
    input,      \* the ModuleList the caller hands to Resolve
    ret,        \* what Resolve(input) returned
    again,      \* what Resolve(ret) returned
    permuted,   \* the reordered input of the second, independent call
    retP,       \* what Resolve returned on the reordered input and graph
    rpc,        \* the caller's position: "start", "resolved", "again", "permuted"
    rstack,     \* the calls of Resolve in progress, the innermost last
    fs,         \* fs[m]: the entries of FileSet m
    panicked,   \* whether the last builder call panicked
    ml,         \* the ModuleList that is built and then walked
    ext,        \* Walk's extension filter
    mi,         \* ModuleList.Walk: the index in ml of the module being walked
    stack,      \* the walkDir calls in progress, the innermost last
    handles,    \* every file Walk has opened, in the order of the Open calls
    events,     \* the calls of the visit function, in order
    raised,     \* the errors Open, Readdir and the visit function returned
    walkErr,    \* what ModuleList.Walk returned
    wpc,        \* "build", "walk", "done" (Walk returned), "use" (a user's file)
    uf,         \* the file a user of the FileSet has opened, as <<[m, f]>>
    got,        \* the entries the user's Readdir calls returned, in order
    last,       \* the user's last Readdir call: count, cursor before, result
    call,       \* the last builder call of a tree under study, as <<[...]>>
    clients,    \* clients[c]: the file client c holds and what it has returned
    split       \* the path handed to fullPathSplit and what came back

resolveVars ==
    <<requires, input, ret, again, permuted, retP, rpc, rstack>>

fsVars == <<fs, panicked, ml>>

walkVars == <<ext, mi, stack, handles, events, raised, walkErr>>

userVars == <<uf, got, last>>

treeVars == <<call, clients>>

splitVars == <<split>>

vars == <<requires, input, ret, again, permuted, retP, rpc, rstack, fs,
          panicked, ml,
          ext, mi, stack, handles, events, raised, walkErr, wpc, uf, got, last,
          call, clients, split>>

\* ------------------------------------------------------- sequence helpers

Range(s) == {s[i] : i \in DOMAIN s}

NoDup(s) == \A i, j \in DOMAIN s : i # j => s[i] # s[j]

\* All sequences without repetition over the set S.
SeqsNoDup(S) ==
    UNION {{s \in [1..n -> S] : NoDup(s)} : n \in 0..Cardinality(S)}

\* s with the entries at positions i and i+1 exchanged.
SwapAt(s, i) ==
    [k \in DOMAIN s |-> IF k = i THEN s[i + 1] ELSE IF k = i + 1 THEN s[i] ELSE s[k]]

\* ------------------------------------------------------------ ModuleList

Name(m) == m

\* ModuleList.Named: whether the list holds a module of that name (non-nil).
Named(l, name) == \E i \in DOMAIN l : Name(l[i]) = name

\* ModuleList.Less on two modules.
Less(a, b) == Name(a) < Name(b)

RECURSIVE SortInsert(_, _)
SortInsert(sorted, m) ==
    IF sorted = <<>> THEN <<m>>
    ELSE IF Less(m, Head(sorted)) THEN <<m>> \o sorted
    ELSE <<Head(sorted)>> \o SortInsert(Tail(sorted), m)

RECURSIVE SortFrom(_, _)
SortFrom(p, acc) ==
    IF p = <<>> THEN acc ELSE SortFrom(Tail(p), SortInsert(acc, Head(p)))

\* A plausible bug: the copy is not sorted.
SortNone(p) == p

\* sort.Sort(r2): the copy of the list in ascending order of Name().
Sort(p) == SortFrom(p, <<>>)

\* A plausible bug: the requirements are added without the Named check.
RECURSIVE AppendAll(_, _)
AppendAll(out, mreqs) ==
    IF mreqs = <<>> THEN out ELSE AppendAll(Append(out, Head(mreqs)), Tail(mreqs))

\* The inner loop of Resolve: each resolved requirement is appended unless a
\* module of its name is already there.
RECURSIVE AppendMissing(_, _)
AppendMissing(out, mreqs) ==
    IF mreqs = <<>> THEN out
    ELSE AppendMissing(IF Named(out, Name(Head(mreqs))) THEN out
                       ELSE Append(out, Head(mreqs)),
                       Tail(mreqs))

\* A plausible bug: the module is appended before its requirements.
PlaceModuleFirst(out, m, mreqs) ==
    AppendMissing(IF Named(out, Name(m)) THEN out ELSE Append(out, m), mreqs)

\* A plausible bug: a module that has requirements is not appended itself.
PlaceRequirementsOnly(out, m, mreqs) ==
    LET out1 == AppendMissing(out, mreqs)
    IN  IF mreqs # <<>> \/ Named(out1, Name(m)) THEN out1 ELSE Append(out1, m)

\* One iteration of the outer loop of Resolve for module m, whose resolved
\* requirements are mreqs: the requirements first, then the module.
PlaceModule(out, m, mreqs) ==
    LET out1 == AppendMissing(out, mreqs)
    IN  IF Named(out1, Name(m)) THEN out1 ELSE Append(out1, m)

RECURSIVE Resolve(_, _)
RECURSIVE ResolveLoop(_, _, _)

\* for _, m := range r2 { ... }
ResolveLoop(reqs, r2, out) ==
    IF r2 = <<>> THEN out
    ELSE LET m == Head(r2)
             mreqs == Resolve(reqs, reqs[m])
         IN  ResolveLoop(reqs, Tail(r2), PlaceModule(out, m, mreqs))

\* Resolve(r) over the heap reqs (each module's Requires()).
Resolve(reqs, r) == ResolveLoop(reqs, Sort(r), <<>>)

\* ----------------------------------------------------------------- paths

\* A path or a name is a sequence of characters.
Slash == "/"
Dot == "."

RECURSIVE Reverse(_)
Reverse(s) == IF s = <<>> THEN <<>> ELSE Append(Reverse(Tail(s)), Head(s))

\* The position of the last character c of s, 0 when there is none.
RECURSIVE LastIndex(_, _)
LastIndex(s, c) ==
    IF s = <<>> THEN 0
    ELSE IF s[Len(s)] = c THEN Len(s)
    ELSE LastIndex(SubSeq(s, 1, Len(s) - 1), c)

\* The elements of s between its separators, empty ones included.
RECURSIVE Elements(_, _)
Elements(s, cur) ==
    IF s = <<>> THEN <<cur>>
    ELSE IF Head(s) = Slash THEN <<cur>> \o Elements(Tail(s), <<>>)
    ELSE Elements(Tail(s), Append(cur, Head(s)))

\* path.Clean on the elements of a rooted path: empty and "." elements are
\* dropped, ".." removes the element before it, and is dropped at the root.
RECURSIVE CleanElements(_, _)
CleanElements(els, out) ==
    IF els = <<>> THEN out
    ELSE LET e == Head(els)
         IN  IF e = <<>> \/ e = <<Dot>> THEN CleanElements(Tail(els), out)
             ELSE IF e = <<Dot, Dot>>
                  THEN CleanElements(Tail(els),
                                     IF out = <<>> THEN out
                                     ELSE SubSeq(out, 1, Len(out) - 1))
             ELSE CleanElements(Tail(els), Append(out, e))

RECURSIVE JoinElements(_)
JoinElements(els) ==
    IF els = <<>> THEN <<>> ELSE <<Slash>> \o Head(els) \o JoinElements(Tail(els))

\* path.Clean(p) for a rooted p (every call of the package passes one).
Clean(p) ==
    LET els == CleanElements(Elements(p, <<>>), <<>>)
    IN  IF els = <<>> THEN <<Slash>> ELSE JoinElements(els)

\* path.Split(p): the path up to and with its last separator, and the rest.
PathSplit(p) ==
    LET i == LastIndex(p, Slash)
    IN  [dir |-> SubSeq(p, 1, i), base |-> SubSeq(p, i + 1, Len(p))]

\* strings.TrimSuffix(s, "/")
TrimSuffixSlash(s) ==
    IF s # <<>> /\ s[Len(s)] = Slash THEN SubSeq(s, 1, Len(s) - 1) ELSE s

\* path.Join(a, b): the non-empty elements joined by a separator, cleaned;
\* a is rooted in every call of the package.
Join(a, b) == Clean(IF b = <<>> THEN a ELSE a \o <<Slash>> \o b)

\* path.Ext(p): the suffix from the last dot of the last element of p.
RECURSIVE Ext(_)
Ext(p) ==
    IF p = <<>> \/ p[Len(p)] = Slash THEN <<>>
    ELSE IF p[Len(p)] = Dot THEN <<Dot>>
    ELSE LET e == Ext(SubSeq(p, 1, Len(p) - 1))
         IN  IF e = <<>> THEN <<>> ELSE Append(e, p[Len(p)])

\* The loop of fullPathSplit: the last element is split off until none is left.
RECURSIVE fullPathSplitLoop(_, _)
fullPathSplitLoop(p1, out) ==
    LET sp == PathSplit(p1)
    IN  IF sp.base = <<>> THEN out
        ELSE fullPathSplitLoop(TrimSuffixSlash(sp.dir), Append(out, sp.base))

\* A plausible bug: the components are returned as the loop found them,
\* the last one first.
fullPathSplitNoReverse(p) == fullPathSplitLoop(Clean(<<Slash>> \o p), <<>>)

\* fullPathSplit(p): "/a/b/c" -> "a", "b", "c".
fullPathSplit(p) == Reverse(fullPathSplitLoop(Clean(<<Slash>> \o p), <<>>))

\* --------------------------------------------------------------- FileSet

\* A FileSet is the heap of its entries: entry 1 is the root, children hold
\* the indices of the child entries in the order they were appended.  Mode
\* bits other than the directory bit, modTime and sys are carried along by
\* the code unchanged and are left out.
NoEntry == 0

\* The first byte of a compressed payload.  The codec is an opaque
\* invertible transform: Gzip puts the marker before the bytes, and
\* Gunzip fails on a payload that does not start with it.
GzipMagic == 31

Gzip(b) == <<GzipMagic>> \o b

GunzipOk(z) == z # <<>> /\ z[1] = GzipMagic

Gunzip(z) == Tail(z)

NilBuf == [isNil |-> TRUE, bytes |-> <<>>]

\* bytes.NewBuffer(b)
NewBuffer(b) == [isNil |-> FALSE, bytes |-> b]

\* NewFileSet(name, requires...): only the root, a directory named "/" whose
\* buf is nil.
NewFileSet ==
    <<[name |-> <<Slash>>, buf |-> NilBuf, gzipped |-> FALSE, isDir |-> TRUE,
       children |-> <<>>]>>

\* newFileEntry(name, b, mode, ...): panics unless name is a lone element.
newFileEntryPanics(name) ==
    LET sp == PathSplit(name) IN sp.dir # <<>> \/ sp.base # name

newFileEntry(name, b, isDir) ==
    [name |-> name, buf |-> NewBuffer(b), gzipped |-> FALSE, isDir |-> isDir,
     children |-> <<>>]

\* fileEntryList.entryWithName: the first entry of that name, or none.
entryWithName(fset, l, name) ==
    IF \E i \in DOMAIN l : fset[l[i]].name = name
    THEN l[CHOOSE i \in DOMAIN l :
               /\ fset[l[i]].name = name
               /\ \A j \in 1..(i - 1) : fset[l[j]].name # name]
    ELSE NoEntry

RECURSIVE findEntryFrom(_, _, _)
findEntryFrom(fset, thisEntry, parts) ==
    IF parts = <<>> THEN thisEntry
    ELSE LET e2 == entryWithName(fset, fset[thisEntry].children, Head(parts))
         IN  IF e2 = NoEntry THEN NoEntry
             ELSE findEntryFrom(fset, e2, Tail(parts))

\* FileSet.findEntry: the entry of a path, NoEntry when there is none.
findEntry(fset, fullPath) ==
    findEntryFrom(fset, 1, fullPathSplit(Clean(<<Slash>> \o fullPath)))

\* The heap with entry e appended as the last child of entry dire.
AppendChild(fset, dire, e) ==
    LET id == Len(fset) + 1
    IN  Append([fset EXCEPT ![dire].children = Append(@, id)], e)

\* The checks Mkdir and writeFile share: the parent must be there and be a
\* directory, and must hold no entry of the base name yet.
CreatePanics(fset, dir, base) ==
    LET dire == findEntry(fset, dir)
    IN  \/ dire = NoEntry
        \/ ~fset[dire].isDir
        \/ entryWithName(fset, fset[dire].children, base) # NoEntry
        \/ newFileEntryPanics(base)

\* FileSet.Mkdir(fullPath, mode): [panic, fs].
Mkdir(fset, fullPath) ==
    LET sp == PathSplit(Clean(<<Slash>> \o fullPath))
    IN  IF CreatePanics(fset, sp.dir, sp.base) THEN [panic |-> TRUE, fs |-> fset]
        ELSE [panic |-> FALSE,
              fs |-> AppendChild(fset, findEntry(fset, sp.dir),
                                 newFileEntry(sp.base, <<>>, TRUE))]

\* FileSet.writeFile(fullPath, mode, modTime, contents, gzipped): [panic, fs].
writeFile(fset, fullPath, contents, gzipped) ==
    LET sp == PathSplit(Clean(<<Slash>> \o fullPath))
    IN  IF CreatePanics(fset, sp.dir, sp.base) THEN [panic |-> TRUE, fs |-> fset]
        ELSE [panic |-> FALSE,
              fs |-> AppendChild(fset, findEntry(fset, sp.dir),
                                 [newFileEntry(sp.base, contents, FALSE)
                                      EXCEPT !.gzipped = gzipped])]

WriteFile(fset, fullPath, contents) == writeFile(fset, fullPath, contents, FALSE)

WriteGzipFile(fset, fullPath, contents) == writeFile(fset, fullPath, contents, TRUE)

RECURSIVE MkdirAllFrom(_, _, _)
MkdirAllFrom(fset, e, parts) ==
    IF parts = <<>> THEN fset
    ELSE LET sube == entryWithName(fset, fset[e].children, Head(parts))
         IN  IF sube = NoEntry
             THEN MkdirAllFrom(AppendChild(fset, e,
                                           newFileEntry(Head(parts), <<>>, TRUE)),
                               Len(fset) + 1, Tail(parts))
             ELSE MkdirAllFrom(fset, sube, Tail(parts))

\* FileSet.MkdirAll(fullPath, mode): [panic, fs]; it has no check that can fail.
MkdirAll(fset, fullPath) ==
    [panic |-> FALSE, fs |-> MkdirAllFrom(fset, 1, fullPathSplit(fullPath))]

\* ------------------------------------------------------------ open files

ErrNil == "nil"
ErrNotExist == "os.ErrNotExist"
ErrGzip == "gzip: invalid header"
ErrEOF == "io.EOF"
ErrVisit == "visit error"

\* fileEntry.open(): [err, file]; the file holds the entry, a reader over the
\* decoded bytes at offset 0 and the entry's children as its own cursor.
open(fset, fe) ==
    LET e == fset[fe]
        file(b) == [fileEntry |-> fe, bytes |-> b, off |-> 0,
                    children |-> e.children, closed |-> FALSE]
    IN  IF e.buf.isNil THEN [err |-> ErrNil, file |-> file(<<>>)]
        ELSE IF ~e.gzipped THEN [err |-> ErrNil, file |-> file(e.buf.bytes)]
        ELSE IF GunzipOk(e.buf.bytes)
             THEN [err |-> ErrNil, file |-> file(Gunzip(e.buf.bytes))]
        ELSE [err |-> ErrGzip, file |-> file(<<>>)]

\* FileSet.Open(fullPath): [err, file].
Open(fset, fullPath) ==
    LET e == findEntry(fset, fullPath)
    IN  IF e = NoEntry
        THEN [err |-> ErrNotExist,
              file |-> [fileEntry |-> NoEntry, bytes |-> <<>>, off |-> 0,
                        children |-> <<>>, closed |-> FALSE]]
        ELSE open(fset, e)

\* file.Close(): the reader is moved to its end.
Close(f) == [f EXCEPT !.off = Len(f.bytes), !.closed = TRUE]

\* A plausible bug: the cursor is not advanced.
ReaddirNoAdvance(f, count) ==
    LET n == IF count <= 0 \/ count > Len(f.children) THEN Len(f.children)
             ELSE count
        ch == SubSeq(f.children, 1, n)
    IN  [ret |-> ch, err |-> IF ch = <<>> THEN ErrEOF ELSE ErrNil, file |-> f]

\* A plausible bug: the entries are handed out last created first.
ReaddirReversed(f, count) ==
    LET n == IF count <= 0 \/ count > Len(f.children) THEN Len(f.children)
             ELSE count
        ch == Reverse(SubSeq(f.children, Len(f.children) - n + 1,
                             Len(f.children)))
    IN  [ret |-> ch, err |-> IF ch = <<>> THEN ErrEOF ELSE ErrNil,
         file |-> [f EXCEPT !.children = SubSeq(@, 1, Len(@) - n)]]

\* file.Readdir(count): [ret, err, file]: the entries handed out, the error
\* and the file with its cursor advanced.
Readdir(f, count) ==
    LET n == IF count <= 0 \/ count > Len(f.children) THEN Len(f.children)
             ELSE count
        ch == SubSeq(f.children, 1, n)
    IN  [ret |-> ch, err |-> IF ch = <<>> THEN ErrEOF ELSE ErrNil,
         file |-> [f EXCEPT !.children = SubSeq(@, n + 1, Len(@))]]

\* ------------------------------------------------------- requires graphs

\* The modules reachable from the set S in at most n steps along reqs.
RECURSIVE ReachN(_, _, _)
ReachN(reqs, S, n) ==
    IF n = 0 THEN S
    ELSE ReachN(reqs, S \cup UNION {Range(reqs[m]) : m \in S}, n - 1)

\* The modules of S and all their direct and transitive requirements.
Reach(reqs, S) == ReachN(reqs, S, NumModules)

\* The direct and transitive requirements of module m.
DepsOf(reqs, m) == Reach(reqs, Range(reqs[m]))

Acyclic(reqs) == \A m \in Modules : m \notin DepsOf(reqs, m)

\* The requires graphs: every module requires a list of other modules, in any
\* order, and no module requires itself directly or transitively.
Graphs ==
    {g \in [Modules -> SeqsNoDup(Modules)] :
        (\A m \in Modules : m \notin Range(g[m])) /\ Acyclic(g)}

\* The graphs and inputs that differ from (reqs, r) by exchanging two
\* neighbours of the input list or of one requires list.
Reorderings(reqs, r) ==
    {<<reqs, SwapAt(r, i)>> : i \in 1..(Len(r) - 1)}
    \cup UNION {{<<[reqs EXCEPT ![m] = SwapAt(reqs[m], i)], r>> :
                    i \in 1..(Len(reqs[m]) - 1)} : m \in Modules}

\* ------------------------------------------------- the caller's slices

\* A plausible bug: Resolve sorts the list it was handed.
SortedInPlace(r) == Sort(r)

\* r2 := make(ModuleList, len(r)); copy(r2, r); sort.Sort(r2): what the list
\* handed to Resolve holds when Resolve returns.  Only the copy is sorted,
\* and nothing else in Resolve writes to a list it did not make.
CallerList(r) == r

\* The requires lists when Resolve(r) returns: Resolve(m.Requires()) was
\* called on the list of every module reachable from r.
CallerHeap(reqs, r) ==
    [m \in Modules |-> IF m \in Reach(reqs, Range(r)) THEN CallerList(reqs[m])
                       ELSE reqs[m]]

\* ------------------------------------------------------------- behaviour

\* The FileSets of a walk: a ModuleList of one or of two modules, the latter
\* not in the order of the names.
FileSets == {1, 2}

\* The number of entries, the roots not counted, that the builder calls may
\* create in all FileSets together.
MaxEntries == 3

\* The state outside the resolver when nothing is built, walked or opened.
InitFileSets(l) ==
    /\ fs = [m \in FileSets |-> NewFileSet]
    /\ panicked = FALSE
    /\ ml = l
    /\ wpc = "build"

InitWalkVars ==
    /\ ext = <<>>
    /\ mi = 0
    /\ stack = <<>>
    /\ handles = <<>>
    /\ events = <<>>
    /\ raised = <<>>
    /\ walkErr = ErrNil

InitUserVars ==
    /\ uf = <<>>
    /\ got = <<>>
    /\ last = <<>>

InitTreeVars ==
    /\ call = <<>>
    /\ clients = <<>>
    /\ split = <<>>

\* The resolver's state when Resolve is not under study.
InitNoResolve ==
    /\ requires = [m \in Modules |-> <<>>]
    /\ input = <<>>
    /\ ret = <<>>
    /\ again = <<>>
    /\ permuted = <<>>
    /\ retP = <<>>
    /\ rpc = "start"
    /\ rstack = <<>>

InitResolve ==
    /\ requires \in Graphs
    /\ input \in SeqsNoDup(Modules)
    /\ ret = <<>>
    /\ again = <<>>
    /\ permuted = <<>>
    /\ retP = <<>>
    /\ rpc = "start"
    /\ rstack = <<>>
    /\ InitFileSets(<<>>)
    /\ InitWalkVars
    /\ InitUserVars
    /\ InitTreeVars

\* modList := webresource.Resolve(input)
CallResolve ==
    /\ rpc = "start"
    /\ ret' = Resolve(requires, input)
    /\ input' = CallerList(input)
    /\ requires' = CallerHeap(requires, input)
    /\ rpc' = "resolved"
    /\ UNCHANGED <<again, permuted, retP, rstack>>
    /\ UNCHANGED <<fsVars, walkVars, wpc, userVars, treeVars, splitVars>>

\* Resolve applied to the list Resolve returned.
CallResolveAgain ==
    /\ rpc = "resolved"
    /\ again' = Resolve(requires, ret)
    /\ ret' = CallerList(ret)
    /\ requires' = CallerHeap(requires, ret)
    /\ rpc' = "again"
    /\ UNCHANGED <<input, permuted, retP, rstack>>
    /\ UNCHANGED <<fsVars, walkVars, wpc, userVars, treeVars, splitVars>>

\* A second caller hands Resolve the same modules with two neighbours of the
\* input list, or of one module's requires list, exchanged.  Every order of
\* every list is an initial state, so single exchanges generate every
\* permutation.
CallResolvePermuted ==
    /\ rpc = "resolved"
    /\ \E v \in Reorderings(requires, input) :
          /\ permuted' = <<CallerHeap(v[1], v[2]), CallerList(v[2])>>
          /\ retP' = Resolve(v[1], v[2])
    /\ rpc' = "permuted"
    /\ UNCHANGED <<requires, input, ret, again, rstack>>
    /\ UNCHANGED <<fsVars, walkVars, wpc, userVars, treeVars, splitVars>>

NextResolve == CallResolve \/ CallResolveAgain \/ CallResolvePermuted

SpecResolve == InitResolve /\ [][NextResolve]_vars

\* ------------------------------------------- Resolve, one call at a time

\* The modules of the graphs that may hold cycles.
RecurseModules == {1, 2, 3}

\* The ascending lists over the set S.
RECURSIVE AscendingLists(_)
AscendingLists(S) ==
    IF S = {} THEN {<<>>}
    ELSE LET top == CHOOSE x \in S : \A y \in S : y <= x
             rest == AscendingLists(S \ {top})
         IN  rest \cup {Append(l, top) : l \in rest}

\* The requires graphs with and without cycles: every module of
\* RecurseModules requires any of them, itself included.
RecurseGraphs ==
    {g \in [Modules -> AscendingLists(RecurseModules)] :
        \A m \in Modules \ RecurseModules : g[m] = <<>>}

\* The input lists: one module, or two in either order.
RecurseInputs == {r \in SeqsNoDup(RecurseModules) : Len(r) \in {1, 2}}

\* The deepest nesting of Resolve calls that is followed.  A chain of calls
\* on an acyclic graph holds the call on the input and at most one call for
\* each module; a chain that is longer goes through some module twice and
\* so goes on for ever, until the Go runtime ends the program with a stack
\* overflow.
MaxDepth == NumModules + 2

\* A plausible bug: a module whose requirements are being resolved further
\* out is not resolved again.
RecursesUnlessInProgress(m, calls) ==
    \A i \in DOMAIN calls : i < Len(calls) => Head(calls[i].r2) # m

\* mreqs := Resolve(m.Requires()) is called for every module of r2: nothing
\* in Resolve looks at the calls in progress.
Recurses(m, calls) == TRUE

\* A call of Resolve(r) at its start: the sorted copy to go through and the
\* empty result.
NewCall(r) == [r2 |-> Sort(r), out |-> <<>>]

\* The caller calls Resolve(input).
ResolveEnter ==
    /\ rpc = "start"
    /\ rstack' = <<NewCall(input)>>
    /\ rpc' = "resolving"
    /\ UNCHANGED <<requires, input, ret, again, permuted, retP>>
    /\ UNCHANGED <<fsVars, walkVars, wpc, userVars, treeVars, splitVars>>

\* The innermost call takes up the next module m of r2 and calls
\* Resolve(m.Requires()).
ResolveRecurse ==
    /\ rpc = "resolving"
    /\ rstack[Len(rstack)].r2 # <<>>
    /\ Len(rstack) < MaxDepth
    /\ LET top == rstack[Len(rstack)]
           m == Head(top.r2)
       IN  rstack' = IF Recurses(m, rstack)
                     THEN Append(rstack, NewCall(requires[m]))
                     ELSE [rstack EXCEPT ![Len(rstack)] =
                              [r2 |-> Tail(top.r2),
                               out |-> PlaceModule(top.out, m, <<>>)]]
    /\ UNCHANGED <<requires, input, ret, again, permuted, retP, rpc>>
    /\ UNCHANGED <<fsVars, walkVars, wpc, userVars, treeVars, splitVars>>

\* The chain of calls has passed every depth an acyclic graph can reach.
ResolveOverflow ==
    /\ rpc = "resolving"
    /\ rstack[Len(rstack)].r2 # <<>>
    /\ Len(rstack) >= MaxDepth
    /\ Recurses(Head(rstack[Len(rstack)].r2), rstack)
    /\ rpc' = "overflow"
    /\ UNCHANGED <<requires, input, ret, again, permuted, retP, rstack>>
    /\ UNCHANGED <<fsVars, walkVars, wpc, userVars, treeVars, splitVars>>

\* The innermost call has gone through r2 and returns its result: to the
\* call that made it, which places the requirements and the module and goes
\* on with its loop, or to the caller of Resolve(input).
ResolveReturn ==
    /\ rpc = "resolving"
    /\ rstack[Len(rstack)].r2 = <<>>
    /\ LET top == rstack[Len(rstack)]
       IN  IF Len(rstack) = 1
           THEN /\ ret' = top.out
                /\ rpc' = "resolved"
                /\ rstack' = <<>>
           ELSE LET caller == rstack[Len(rstack) - 1]
                IN  /\ rstack' =
                          Append(SubSeq(rstack, 1, Len(rstack) - 2),
                                 [r2 |-> Tail(caller.r2),
                                  out |-> PlaceModule(caller.out,
                                                      Head(caller.r2),
                                                      top.out)])
                    /\ UNCHANGED <<ret, rpc>>
    /\ UNCHANGED <<requires, input, again, permuted, retP>>
    /\ UNCHANGED <<fsVars, walkVars, wpc, userVars, treeVars, splitVars>>

InitRecurse ==
    /\ requires \in RecurseGraphs
    /\ input \in RecurseInputs
    /\ ret = <<>>
    /\ again = <<>>
    /\ permuted = <<>>
    /\ retP = <<>>
    /\ rpc = "start"
    /\ rstack = <<>>
    /\ InitFileSets(<<>>)
    /\ InitWalkVars
    /\ InitUserVars
    /\ InitTreeVars

NextRecurse ==
    \/ ResolveEnter
    \/ ResolveRecurse
    \/ ResolveOverflow
    \/ ResolveReturn

\* Resolve is sequential code: a call that can take a step takes it.
SpecRecurse == InitRecurse /\ [][NextRecurse]_vars /\ WF_vars(NextRecurse)

\* ---------------------------------------------------------- the builder

\* The entries created so far in all FileSets, the roots not counted.
EntryCount == Len(fs[1]) + Len(fs[2]) - 2

\* One builder call on FileSet m with result r = [panic, fs].  A panic aborts
\* the construction: nothing is built, walked or opened after it.
BuilderCall(m, r) ==
    /\ wpc = "build"
    /\ ~panicked
    /\ m \in Range(ml)
    /\ EntryCount - (Len(fs[m]) - 1) + (Len(r.fs) - 1) <= MaxEntries
    /\ fs' = [fs EXCEPT ![m] = r.fs]
    /\ panicked' = r.panic
    /\ UNCHANGED <<ml, wpc, resolveVars, walkVars, userVars, treeVars, splitVars>>

\* fs.Mkdir(fullPath, 0755)
DoMkdir(m, fullPath) == BuilderCall(m, Mkdir(fs[m], fullPath))

\* fs.WriteFile(fullPath, 0644, modTime, contents)
DoWriteFile(m, fullPath, contents) ==
    BuilderCall(m, WriteFile(fs[m], fullPath, contents))

\* fs.WriteGzipFile(fullPath, 0644, modTime, contents)
DoWriteGzipFile(m, fullPath, contents) ==
    BuilderCall(m, WriteGzipFile(fs[m], fullPath, contents))

\* ------------------------------------------------------------------ Walk

\* One call of walkDir(m, root, ext, fn) at its start.
Frame(m, root) ==
    [m |-> m, root |-> root, pc |-> "open", dirf |-> 0, fis |-> <<>>, f |-> 0,
     fullPath |-> <<>>, err |-> ErrNil]

Top == stack[Len(stack)]

SetTop(fr) == [stack EXCEPT ![Len(stack)] = fr]

\* A plausible bug: the modules the list requires are walked with it.
ModulesWithRequires(l) == Resolve(requires, l)

\* ModuleList.Walk: for _, m := range l: the modules of the list and no
\* other; neither Walk nor walkDir calls Requires().
ModulesWalked(l) == l

\* A plausible bug: ModuleList.Walk goes on to the next module after an error.
ListIgnoresError(err) == FALSE

\* ModuleList.Walk: if err != nil { return err }
ListReturnsOnError(err) == err # ErrNil

\* walkDir: if err != nil { return err }
DirReturnsOnError(err) == err # ErrNil

\* A plausible bug: the file is closed only when the visit function succeeds.
ClosedOnSuccess(err) == err = ErrNil

\* walkDir: defer f.Close() runs whatever the visit function returns.
DeferredClose(err) == TRUE

\* walkDir: path.Ext(base) != ext skips the entry.
ExtMatches(base, e) == Ext(base) = e

\* What the visit function returns, as the caller's function decides.
VisitResults == {ErrNil, ErrVisit}

\* The paths, contents and filter of the walks: a directory and a file in
\* it, two files of the extension, a file whose extension only starts with
\* it, a payload that is not compressed.
WalkPaths ==
    {<<"/", "d">>, <<"/", "c", ".", "j">>, <<"/", "a", ".", "j">>,
     <<"/", "d", "/", "a", ".", "j">>, <<"/", "b", ".", "j", "x">>}

WalkContents == {<<1>>}

WalkPayloads == {<<1>>}

WalkExts == {<<".", "j">>}

WalkLists == {<<1>>, <<2, 1>>}

\* l.Walk(ext, fn) is called on the built modules.
WalkStart ==
    /\ wpc = "build"
    /\ ~panicked
    /\ \E e \in WalkExts : ext' = e
    /\ IF ModulesWalked(ml) = <<>>
       THEN /\ wpc' = "done"
            /\ UNCHANGED <<mi, stack>>
       ELSE /\ wpc' = "walk"
            /\ mi' = 1
            /\ stack' = <<Frame(ModulesWalked(ml)[1], <<Slash>>)>>
    /\ UNCHANGED <<handles, events, raised, walkErr>>
    /\ UNCHANGED <<fsVars, resolveVars, userVars, treeVars, splitVars>>

\* dirf, err := m.Open(root)
WalkOpenDir ==
    /\ wpc = "walk"
    /\ Top.pc = "open"
    /\ LET r == Open(fs[Top.m], Top.root)
       IN  IF r.err # ErrNil
           THEN /\ stack' = SetTop([Top EXCEPT !.pc = "return", !.err = r.err])
                /\ raised' = Append(raised, r.err)
                /\ UNCHANGED handles
           ELSE /\ handles' = Append(handles, [m |-> Top.m, f |-> r.file])
                /\ stack' = SetTop([Top EXCEPT !.pc = "readdir",
                                               !.dirf = Len(handles) + 1])
                /\ UNCHANGED raised
    /\ UNCHANGED <<ext, mi, events, walkErr, wpc>>
    /\ UNCHANGED <<fsVars, resolveVars, userVars, treeVars, splitVars>>

\* fis, err := dirf.Readdir(-1)
WalkReaddir ==
    /\ wpc = "walk"
    /\ Top.pc = "readdir"
    /\ LET r == Readdir(handles[Top.dirf].f, -1)
       IN  /\ handles' = [handles EXCEPT ![Top.dirf].f = r.file]
           /\ stack' = SetTop([Top EXCEPT !.pc = "close", !.fis = r.ret,
                                          !.err = r.err])
           /\ raised' = IF r.err # ErrNil THEN Append(raised, r.err) ELSE raised
    /\ UNCHANGED <<ext, mi, events, walkErr, wpc>>
    /\ UNCHANGED <<fsVars, resolveVars, userVars, treeVars, splitVars>>

\* dirf.Close(); if err != nil { return err }
WalkCloseDir ==
    /\ wpc = "walk"
    /\ Top.pc = "close"
    /\ handles' = [handles EXCEPT ![Top.dirf].f = Close(@)]
    /\ stack' = SetTop([Top EXCEPT !.pc = IF DirReturnsOnError(Top.err)
                                          THEN "return" ELSE "loop"])
    /\ UNCHANGED <<ext, mi, events, raised, walkErr, wpc>>
    /\ UNCHANGED <<fsVars, resolveVars, userVars, treeVars, splitVars>>

\* for _, fi := range fis: a directory is walked by a recursive call, a file
\* of another extension is skipped, a file of the extension is opened.
WalkLoop ==
    /\ wpc = "walk"
    /\ Top.pc = "loop"
    /\ IF Top.fis = <<>>
       THEN /\ stack' = SetTop([Top EXCEPT !.pc = "return", !.err = ErrNil])
            /\ UNCHANGED <<handles, raised>>
       ELSE LET fi == fs[Top.m][Head(Top.fis)]
                fullPath == Join(Top.root, fi.name)
                r == Open(fs[Top.m], fullPath)
            IN  IF fi.isDir
                THEN /\ stack' = Append(SetTop([Top EXCEPT !.pc = "recursed",
                                                           !.fis = Tail(@)]),
                                        Frame(Top.m, fullPath))
                     /\ UNCHANGED <<handles, raised>>
                ELSE IF ~ExtMatches(fi.name, ext)
                THEN /\ stack' = SetTop([Top EXCEPT !.fis = Tail(@)])
                     /\ UNCHANGED <<handles, raised>>
                ELSE IF r.err # ErrNil
                THEN /\ stack' = SetTop([Top EXCEPT !.pc = "return",
                                                    !.err = r.err])
                     /\ raised' = Append(raised, r.err)
                     /\ UNCHANGED handles
                ELSE /\ handles' = Append(handles, [m |-> Top.m, f |-> r.file])
                     /\ stack' = SetTop([Top EXCEPT !.pc = "visit",
                                                    !.fis = Tail(@),
                                                    !.f = Len(handles) + 1,
                                                    !.fullPath = fullPath])
                     /\ UNCHANGED raised
    /\ UNCHANGED <<ext, mi, events, walkErr, wpc>>
    /\ UNCHANGED <<fsVars, resolveVars, userVars, treeVars, splitVars>>

\* return fn(m, fullPath, f).  The visit function reads the file to its end,
\* as ioutil.ReadAll does, and returns what its author decides.
WalkVisit ==
    /\ wpc = "walk"
    /\ Top.pc = "visit"
    /\ \E res \in VisitResults :
          /\ events' = Append(events,
                              [m |-> Top.m, fullPath |-> Top.fullPath,
                               fileEntry |-> handles[Top.f].f.fileEntry,
                               bytes |-> handles[Top.f].f.bytes,
                               after |-> Len(raised), err |-> res])
          /\ raised' = IF res # ErrNil THEN Append(raised, res) ELSE raised
          /\ stack' = SetTop([Top EXCEPT !.pc = "closefile", !.err = res])
    /\ handles' = [handles EXCEPT ![Top.f].f.off = Len(handles[Top.f].f.bytes)]
    /\ UNCHANGED <<ext, mi, walkErr, wpc>>
    /\ UNCHANGED <<fsVars, resolveVars, userVars, treeVars, splitVars>>

\* The deferred f.Close(), then: if err != nil { return err }
WalkCloseFile ==
    /\ wpc = "walk"
    /\ Top.pc = "closefile"
    /\ handles' = IF DeferredClose(Top.err)
                  THEN [handles EXCEPT ![Top.f].f = Close(@)]
                  ELSE handles
    /\ stack' = SetTop([Top EXCEPT !.pc = IF DirReturnsOnError(Top.err)
                                          THEN "return" ELSE "loop"])
    /\ UNCHANGED <<ext, mi, events, raised, walkErr, wpc>>
    /\ UNCHANGED <<fsVars, resolveVars, userVars, treeVars, splitVars>>

\* walkDir returns err: to the walkDir that called it, or to ModuleList.Walk,
\* which returns the error or goes on to the next module.
WalkReturn ==
    /\ wpc = "walk"
    /\ Top.pc = "return"
    /\ IF Len(stack) > 1
       THEN LET caller == stack[Len(stack) - 1]
            IN  /\ stack' = Append(SubSeq(stack, 1, Len(stack) - 2),
                                   IF DirReturnsOnError(Top.err)
                                   THEN [caller EXCEPT !.pc = "return",
                                                       !.err = Top.err]
                                   ELSE [caller EXCEPT !.pc = "loop"])
                /\ UNCHANGED <<mi, walkErr, wpc>>
       ELSE IF ListReturnsOnError(Top.err)
       THEN /\ stack' = <<>>
            /\ walkErr' = Top.err
            /\ wpc' = "done"
            /\ UNCHANGED mi
       ELSE IF mi < Len(ModulesWalked(ml))
       THEN /\ stack' = <<Frame(ModulesWalked(ml)[mi + 1], <<Slash>>)>>
            /\ mi' = mi + 1
            /\ UNCHANGED <<walkErr, wpc>>
       ELSE /\ stack' = <<>>
            /\ walkErr' = ErrNil
            /\ wpc' = "done"
            /\ UNCHANGED mi
    /\ UNCHANGED <<ext, handles, events, raised>>
    /\ UNCHANGED <<fsVars, resolveVars, userVars, treeVars, splitVars>>

InitWalk ==
    /\ InitNoResolve
    /\ \E l \in WalkLists : InitFileSets(l)
    /\ InitWalkVars
    /\ InitUserVars
    /\ InitTreeVars

BuildForWalk ==
    \E m \in FileSets, fullPath \in WalkPaths :
        \/ DoMkdir(m, fullPath)
        \/ \E c \in WalkContents : DoWriteFile(m, fullPath, c)
        \/ \E z \in WalkPayloads : DoWriteGzipFile(m, fullPath, z)

Next ==
    \/ BuildForWalk
    \/ WalkStart
    \/ WalkOpenDir
    \/ WalkReaddir
    \/ WalkCloseDir
    \/ WalkLoop
    \/ WalkVisit
    \/ WalkCloseFile
    \/ WalkReturn

Spec == InitWalk /\ [][Next]_vars

\* --------------------------------------- a walk of a module that requires

\* Module 1 requires module 2, which holds a file of the extension, and the
\* list that is built further and walked holds module 1 only.
InitWalkOwn ==
    /\ requires = [m \in Modules |-> IF m = 1 THEN <<2>> ELSE <<>>]
    /\ input = <<>>
    /\ ret = <<>>
    /\ again = <<>>
    /\ permuted = <<>>
    /\ retP = <<>>
    /\ rpc = "start"
    /\ rstack = <<>>
    /\ fs = [m \in FileSets |->
                IF m = 1 THEN NewFileSet
                ELSE WriteFile(NewFileSet, <<"/", "a", ".", "j">>, <<1>>).fs]
    /\ panicked = FALSE
    /\ ml = <<1>>
    /\ wpc = "build"
    /\ InitWalkVars
    /\ InitUserVars
    /\ InitTreeVars

SpecWalkOwn == InitWalkOwn /\ [][Next]_vars

\* ------------------------------------------------- a user's open file

\* f, err := fs.Open(fullPath) by a user of the built FileSet.
UserOpen(m, fullPath) ==
    /\ wpc = "build"
    /\ ~panicked
    /\ m \in Range(ml)
    /\ LET r == Open(fs[m], fullPath)
       IN  /\ r.err = ErrNil
           /\ uf' = <<[m |-> m, f |-> r.file]>>
    /\ wpc' = "use"
    /\ UNCHANGED <<got, last>>
    /\ UNCHANGED <<fsVars, resolveVars, walkVars, treeVars, splitVars>>

\* fis, err := f.Readdir(count) on the user's file.
UserReaddir(count) ==
    /\ wpc = "use"
    /\ LET r == Readdir(uf[1].f, count)
       IN  /\ uf' = <<[uf[1] EXCEPT !.f = r.file]>>
           /\ got' = got \o r.ret
           /\ last' = <<[count |-> count, before |-> uf[1].f.children,
                         ret |-> r.ret, err |-> r.err]>>
    /\ UNCHANGED wpc
    /\ UNCHANGED <<fsVars, resolveVars, walkVars, treeVars, splitVars>>

\* The paths and counts of the directory listings: three children of the
\* root, one of them with a child of its own; counts without limit (0, -1),
\* of one entry and of more than one.
ReaddirPaths ==
    {<<"/", "a">>, <<"/", "b">>, <<"/", "c">>, <<"/", "a", "/", "b">>}

ReaddirOpenPaths == {<<"/">>, <<"/", "a">>}

ReaddirCounts == {-1, 0, 1, 2}

InitReaddir ==
    /\ InitNoResolve
    /\ InitFileSets(<<1>>)
    /\ InitWalkVars
    /\ InitUserVars
    /\ InitTreeVars

BuildForReaddir ==
    \E fullPath \in ReaddirPaths :
        \/ DoMkdir(1, fullPath)
        \/ DoWriteFile(1, fullPath, <<1>>)

NextReaddir ==
    \/ BuildForReaddir
    \/ \E fullPath \in ReaddirOpenPaths : UserOpen(1, fullPath)
    \/ \E count \in ReaddirCounts : UserReaddir(count)

SpecReaddir == InitReaddir /\ [][NextReaddir]_vars

\* ------------------------------------------- several clients' open files

\* bytes.Reader.Read(p) with len(p) = n > 0: [ret, err, file].
Read(f, n) ==
    IF f.off >= Len(f.bytes)
    THEN [ret |-> <<>>, err |-> ErrEOF, file |-> f]
    ELSE LET left == Len(f.bytes) - f.off
             k == IF n < left THEN n ELSE left
         IN  [ret |-> SubSeq(f.bytes, f.off + 1, f.off + k), err |-> ErrNil,
              file |-> [f EXCEPT !.off = @ + k]]

\* ioutil.ReadAll(f): everything from the reader's position to its end.
ReadAll(f) == SubSeq(f.bytes, f.off + 1, Len(f.bytes))

\* A plausible bug: the file of an entry is made once and handed to every
\* caller that opens the entry.
SharedFile(files, m, f) ==
    LET same == {i \in DOMAIN files :
                    files[i].m = m /\ files[i].f.fileEntry = f.fileEntry}
    IN  IF same = {}
        THEN [files |-> Append(files, [m |-> m, f |-> f]), h |-> Len(files) + 1]
        ELSE [files |-> files, h |-> CHOOSE i \in same : TRUE]

\* fileEntry.open: return &file{...}: every call makes a file of its own.
NewFile(files, m, f) ==
    [files |-> Append(files, [m |-> m, f |-> f]), h |-> Len(files) + 1]

\* The callers that open files of FileSet 1 side by side.
Clients == {1, 2}

\* A client that holds no file.
NoFile == [h |-> 0, read |-> <<>>, listed |-> <<>>, kids |-> <<>>,
           closed |-> FALSE]

\* f, err := fs.Open(fullPath) by client c, which goes on when err is nil.
ClientOpen(c, fullPath) ==
    /\ wpc \in {"build", "use"}
    /\ ~panicked
    /\ clients[c].h = 0
    /\ LET r == Open(fs[1], fullPath)
           a == NewFile(uf, 1, r.file)
       IN  /\ r.err = ErrNil
           /\ uf' = a.files
           /\ clients' = [clients EXCEPT ![c] =
                             [NoFile EXCEPT !.h = a.h,
                                            !.kids = fs[1][r.file.fileEntry].children]]
    /\ wpc' = "use"
    /\ UNCHANGED <<got, last, call>>
    /\ UNCHANGED <<fsVars, resolveVars, walkVars, splitVars>>

\* n, err := f.Read(p) by client c, with len(p) = n.
ClientRead(c, n) ==
    /\ wpc = "use"
    /\ clients[c].h # 0
    /\ LET h == clients[c].h
           r == Read(uf[h].f, n)
       IN  /\ uf' = [uf EXCEPT ![h].f = r.file]
           /\ clients' = [clients EXCEPT ![c].read = @ \o r.ret]
    /\ UNCHANGED <<got, last, call, wpc>>
    /\ UNCHANGED <<fsVars, resolveVars, walkVars, splitVars>>

\* fis, err := f.Readdir(count) by client c.
ClientReaddir(c, count) ==
    /\ wpc = "use"
    /\ clients[c].h # 0
    /\ LET h == clients[c].h
           r == Readdir(uf[h].f, count)
       IN  /\ uf' = [uf EXCEPT ![h].f = r.file]
           /\ clients' = [clients EXCEPT ![c].listed = @ \o r.ret]
    /\ UNCHANGED <<got, last, call, wpc>>
    /\ UNCHANGED <<fsVars, resolveVars, walkVars, splitVars>>

\* f.Close() by client c.
ClientClose(c) ==
    /\ wpc = "use"
    /\ clients[c].h # 0
    /\ ~clients[c].closed
    /\ uf' = [uf EXCEPT ![clients[c].h].f = Close(@)]
    /\ clients' = [clients EXCEPT ![c].closed = TRUE]
    /\ UNCHANGED <<got, last, call, wpc>>
    /\ UNCHANGED <<fsVars, resolveVars, walkVars, splitVars>>

\* The tree the clients open: two entries below the root, each a directory,
\* a file of two bytes or a compressed file of the same two bytes.
FilePaths == {<<"/", "a">>, <<"/", "b">>}

FileOpenPaths == {<<"/">>, <<"/", "a">>}

FileContents == {<<1, 2>>}

ReadSizes == {1, 2}

InitFiles ==
    /\ InitNoResolve
    /\ InitFileSets(<<1>>)
    /\ InitWalkVars
    /\ InitUserVars
    /\ call = <<>>
    /\ clients = [c \in Clients |-> NoFile]
    /\ split = <<>>

BuildForFiles ==
    \E fullPath \in FilePaths :
        \/ DoMkdir(1, fullPath)
        \/ \E b \in FileContents : DoWriteFile(1, fullPath, b)
        \/ \E b \in FileContents : DoWriteGzipFile(1, fullPath, Gzip(b))

NextFiles ==
    \/ BuildForFiles
    \/ \E c \in Clients, fullPath \in FileOpenPaths : ClientOpen(c, fullPath)
    \/ \E c \in Clients, n \in ReadSizes : ClientRead(c, n)
    \/ \E c \in Clients, count \in ReaddirCounts : ClientReaddir(c, count)
    \/ \E c \in Clients : ClientClose(c)

SpecFiles == InitFiles /\ [][NextFiles]_vars

\* ------------------------------------------------- a tree under study

\* fileEntry.Size(): int64(fe.buf.Len()), the number of stored bytes; the
\* call dereferences buf, which is nil in the root.
Size(fset, fe) ==
    [panic |-> fset[fe].buf.isNil, size |-> Len(fset[fe].buf.bytes)]

\* One builder call on FileSet 1 with result r = [panic, fs], of which the
\* operation, its arguments and the tree before it are kept.
TreeCall(op, fullPath, contents, r) ==
    /\ wpc = "build"
    /\ ~panicked
    /\ Len(r.fs) - 1 <= MaxEntries
    /\ fs' = [fs EXCEPT ![1] = r.fs]
    /\ panicked' = r.panic
    /\ call' = <<[op |-> op, fullPath |-> fullPath, contents |-> contents,
                  before |-> fs[1]]>>
    /\ UNCHANGED <<ml, wpc, clients>>
    /\ UNCHANGED <<resolveVars, walkVars, userVars, splitVars>>

\* The paths and contents of the calls: the root, an entry below it, an
\* entry below that one, and a path without its leading separator; two
\* bytes, their compressed form, and a payload that is not compressed.
TreePaths ==
    {<<"/">>, <<"/", "a">>, <<"/", "a", "/", "b">>, <<"b">>}

TreeContents == {<<1, 2>>}

TreePayloads == {Gzip(<<1, 2>>), <<1>>}

InitTree ==
    /\ InitNoResolve
    /\ InitFileSets(<<1>>)
    /\ InitWalkVars
    /\ InitUserVars
    /\ InitTreeVars

NextTree ==
    \E fullPath \in TreePaths :
        \/ TreeCall("Mkdir", fullPath, <<>>, Mkdir(fs[1], fullPath))
        \/ TreeCall("MkdirAll", fullPath, <<>>, MkdirAll(fs[1], fullPath))
        \/ \E b \in TreeContents :
              TreeCall("WriteFile", fullPath, b, WriteFile(fs[1], fullPath, b))
        \/ \E z \in TreePayloads :
              TreeCall("WriteGzipFile", fullPath, z,
                       WriteGzipFile(fs[1], fullPath, z))

SpecTree == InitTree /\ [][NextTree]_vars

\* ----------------------------------------------------- path splitting

\* The longest path handed to fullPathSplit, in characters.
MaxPathLen == 5

\* The characters of the paths: the separator, the dot and two letters.
PathChars == {Slash, Dot, "a", "b"}

SplitPaths == UNION {[1..n -> PathChars] : n \in 0..MaxPathLen}

\* strings.Join(parts, "/")
RECURSIVE SlashJoin(_)
SlashJoin(parts) ==
    IF parts = <<>> THEN <<>>
    ELSE IF Len(parts) = 1 THEN Head(parts)
    ELSE Head(parts) \o <<Slash>> \o SlashJoin(Tail(parts))

InitSplit ==
    /\ InitNoResolve
    /\ InitFileSets(<<>>)
    /\ InitWalkVars
    /\ InitUserVars
    /\ call = <<>>
    /\ clients = <<>>
    /\ \E p \in SplitPaths :
          split = <<[p |-> p, pc |-> "start", parts |-> <<>>, again |-> <<>>]>>

\* parts := fullPathSplit(p)
CallSplit ==
    /\ split[1].pc = "start"
    /\ split' = <<[split[1] EXCEPT !.pc = "split",
                                   !.parts = fullPathSplit(split[1].p)]>>
    /\ UNCHANGED <<resolveVars, fsVars, walkVars, wpc, userVars, treeVars>>

\* fullPathSplit(strings.Join(parts, "/")) on the components returned.
CallSplitAgain ==
    /\ split[1].pc = "split"
    /\ split' = <<[split[1] EXCEPT
                      !.pc = "again",
                      !.again = fullPathSplit(SlashJoin(split[1].parts))]>>
    /\ UNCHANGED <<resolveVars, fsVars, walkVars, wpc, userVars, treeVars>>

NextSplit == CallSplit \/ CallSplitAgain

SpecSplit == InitSplit /\ [][NextSplit]_vars

\* ------------------------------------------------- properties of Resolve

\* The first position of module m in the list s.
Position(s, m) == CHOOSE i \in DOMAIN s : s[i] = m /\ \A j \in 1..(i - 1) : s[j] # m

\* The members of the set S in ascending order of name.
RECURSIVE Ascending(_)
Ascending(S) ==
    IF S = {} THEN <<>>
    ELSE LET lo == CHOOSE m \in S : \A o \in S : ~Less(o, m)
         IN  <<lo>> \o Ascending(S \ {lo})

\* The name-sorted traversal of the requires graph from the list r: each
\* module after the traversal of its own requirements, nothing left out.
RECURSIVE Traversal(_, _)
RECURSIVE TraversalOver(_, _)
TraversalOver(reqs, asc) ==
    IF asc = <<>> THEN <<>>
    ELSE Traversal(reqs, reqs[Head(asc)]) \o <<Head(asc)>>
         \o TraversalOver(reqs, Tail(asc))

Traversal(reqs, r) == TraversalOver(reqs, Ascending(Range(r)))

\* s with every entry but the first of each module dropped.
RECURSIVE FirstOccurrences(_, _)
FirstOccurrences(s, seen) ==
    IF s = <<>> THEN <<>>
    ELSE IF Head(s) \in seen THEN FirstOccurrences(Tail(s), seen)
    ELSE <<Head(s)>> \o FirstOccurrences(Tail(s), seen \cup {Head(s)})

\* C1: in the list Resolve returns, every direct and transitive requirement
\* of a module stands at a strictly earlier index than the module.
C1_DependenciesFirst ==
    rpc = "resolved" =>
        \A i \in DOMAIN ret :
            \A d \in DepsOf(requires, ret[i]) :
                \E j \in 1..(i - 1) : ret[j] = d

\* Resolve has run on a module whose transitive, not direct, requirement has
\* a later name than the module and is not part of the input.
C1_Witness ==
    /\ rpc = "resolved"
    /\ \E m \in Range(input) :
          \E d \in DepsOf(requires, m) \ Range(requires[m]) :
              Less(m, d) /\ d \notin Range(input)

\* C2: the list Resolve returns holds no name twice, and each module stands
\* where the name-sorted traversal reaches it first.
C2_NoDuplicateNames ==
    rpc = "resolved" =>
        /\ \A i, j \in DOMAIN ret : Name(ret[i]) = Name(ret[j]) => i = j
        /\ ret = FirstOccurrences(Traversal(requires, input), {})

\* Resolve has run on an input module that reaches one module along two
\* dependency paths: as its own requirement and as that of another
\* requirement.
C2_Witness ==
    /\ rpc = "resolved"
    /\ \E d \in Range(input) : \E b \in Range(requires[d]) :
          Range(requires[d]) \cap Range(requires[b]) # {}

\* C3: Resolve returns the same list when the input list or a requires list
\* is reordered.
C3_InputOrderIndependent ==
    rpc = "permuted" => retP = ret

\* Resolve has run on a reordered input list of modules with requirements
\* outside the input.
C3_Witness ==
    /\ rpc = "permuted"
    /\ permuted[2] # input
    /\ Len(ret) > Len(input)

\* C4 as claimed: Resolve(Resolve(L)) is the same list as Resolve(L).
C4_Idempotent ==
    rpc = "again" => again = ret

\* C4 as amended: Resolve(Resolve(L)) holds the same modules as Resolve(L),
\* each once, and is the same list when L already holds every module that
\* its modules require directly or transitively.
C4_IdempotentOnClosedInput ==
    rpc = "again" =>
        /\ NoDup(again)
        /\ Range(again) = Range(ret)
        /\ Len(again) = Len(ret)
        /\ (Reach(requires, Range(input)) = Range(input) => again = ret)

\* Resolve has run twice on an input that holds all its requirements, not in
\* the order Resolve returns.
C4_Witness ==
    /\ rpc = "again"
    /\ Reach(requires, Range(input)) = Range(input)
    /\ \E m \in Range(input) : requires[m] # <<>>
    /\ input # ret

\* C5: the names Resolve returns are exactly those of the modules reachable
\* from the input through requires; an empty input gives an empty list, a
\* lone module without requirements gives itself.
C5_OutputIsReachableSet ==
    rpc = "resolved" =>
        /\ {Name(ret[i]) : i \in DOMAIN ret}
             = {Name(m) : m \in Reach(requires, Range(input))}
        /\ (input = <<>> => ret = <<>>)
        /\ \A m \in Modules : (input = <<m>> /\ requires[m] = <<>>) => ret = <<m>>

\* Resolve has run on an input that reaches modules outside the input and
\* leaves at least one module of the graph unreached.
C5_Witness ==
    /\ rpc = "resolved"
    /\ Reach(requires, Range(input)) # Range(input)
    /\ Reach(requires, Range(input)) # Modules

\* C6: for input modules m1, m2 with name(m1) < name(m2), m1 and all its
\* requirements stand before m2 and before those requirements of m2 that no
\* input module named at most name(m1) reaches; m2 itself is exempt when such
\* an input module reaches it.  Inputs [3, 2] that both require 1, which
\* requires nothing, give [1, 2, 3].
C6_AscendingNameOrder ==
    rpc = "resolved" =>
        /\ \A m1, m2 \in Range(input) :
              Less(m1, m2) =>
                  LET early == Reach(requires,
                                     {m \in Range(input) : ~Less(m1, m)})
                  IN  \A x \in Reach(requires, {m1}) :
                          \A y \in Reach(requires, {m2}) \ early :
                              Position(ret, x) < Position(ret, y)
        /\ (/\ input = <<3, 2>>
            /\ requires[3] = <<1>> /\ requires[2] = <<1>> /\ requires[1] = <<>>)
               => ret = <<1, 2, 3>>

\* Resolve has run on the input [3, 2] whose modules both require 1.
C6_Witness ==
    /\ rpc = "resolved"
    /\ input = <<3, 2>>
    /\ requires[3] = <<1>>
    /\ requires[2] = <<1>>
    /\ requires[1] = <<>>

\* --------------------------------------------------- properties of Walk

\* The path of the child called name of the directory at path root.
ChildPath(root, name) ==
    IF root = <<Slash>> THEN root \o name ELSE root \o <<Slash>> \o name

\* The files of extension x below the entries ids of the directory at root,
\* depth first, each directory's children in the order they were created.
RECURSIVE Listing(_, _, _, _, _)
Listing(m, fset, ids, root, x) ==
    IF ids = <<>> THEN <<>>
    ELSE LET e == fset[Head(ids)]
             here == IF e.isDir
                     THEN Listing(m, fset, e.children, ChildPath(root, e.name), x)
                     ELSE IF Ext(e.name) = x
                     THEN <<[m |-> m, fullPath |-> ChildPath(root, e.name),
                             fileEntry |-> Head(ids)]>>
                     ELSE <<>>
         IN  here \o Listing(m, fset, Tail(ids), root, x)

\* The listing of every module of the list l, in the order of the list.
RECURSIVE Expected(_, _)
Expected(l, x) ==
    IF l = <<>> THEN <<>>
    ELSE Listing(Head(l), fs[Head(l)], fs[Head(l)][1].children, <<Slash>>, x)
         \o Expected(Tail(l), x)

\* The calls of the visit function so far: module, path and entry.
Visits ==
    [i \in DOMAIN events |->
        [m |-> events[i].m, fullPath |-> events[i].fullPath,
         fileEntry |-> events[i].fileEntry]]

\* Every compressed file of the modules of ml holds a valid payload.
AllReadable ==
    \A m \in Range(ml) : \A e \in DOMAIN fs[m] :
        fs[m][e].gzipped => GunzipOk(fs[m][e].buf.bytes)

\* C7: when Walk has returned, every file holds valid content and no call of
\* the visit function returned an error, the visit function was called
\* exactly once for each file of the extension, module by module in list
\* order and depth first in creation order inside a module, and never with
\* a directory.
C7_VisitsEachMatchingFileInOrder ==
    /\ \A i \in DOMAIN events : ~fs[events[i].m][events[i].fileEntry].isDir
    /\ (wpc = "done" /\ AllReadable /\ ErrVisit \notin Range(raised))
           => Visits = Expected(ml, ext)

\* C8: once Open, Readdir or the visit function has returned an error, the
\* visit function is not called again, nothing else is attempted, and Walk
\* returns that error; without an error Walk returns nil.
C8_StopsAtFirstError ==
    /\ Len(raised) <= 1
    /\ \A i \in DOMAIN events : events[i].after = 0
    /\ wpc = "done" => walkErr = (IF raised = <<>> THEN ErrNil ELSE raised[1])

\* Walk has returned the error of a visit call while files of the extension
\* were left in that module and in a later module of the list.
C8_Witness ==
    /\ wpc = "done"
    /\ walkErr = ErrVisit
    /\ mi < Len(ml)
    /\ LET todo == Expected(ml, ext)
       IN  /\ \E i \in DOMAIN todo :
                 todo[i].m = ml[mi] /\ \A j \in DOMAIN Visits : Visits[j] # todo[i]
           /\ \E i \in DOMAIN todo : todo[i].m = ml[mi + 1]

OpenHandles == {i \in DOMAIN handles : ~handles[i].f.closed}

OpenFileHandles ==
    {i \in OpenHandles : ~fs[handles[i].m][handles[i].f.fileEntry].isDir}

\* C9: at most one file is open at any time and the open handles never
\* exceed one file plus one directory for each walkDir call in progress; a
\* file is open only from its Open to the Close that follows the visit call,
\* so none is open when the next entry is taken up; when Walk has returned,
\* with or without an error, every handle it opened is closed.
C9_HandlesClosed ==
    /\ Cardinality(OpenFileHandles) <= 1
    /\ Cardinality(OpenHandles) <= 1 + Len(stack)
    /\ (wpc = "walk" /\ Top.pc \notin {"visit", "closefile"})
           => OpenFileHandles = {}
    /\ wpc = "done" => OpenHandles = {}

\* Walk has returned after a visit call on a file of a subdirectory returned
\* an error.
C9_Witness ==
    /\ wpc = "done"
    /\ Len(handles) >= 3
    /\ events # <<>>
    /\ events[Len(events)].err = ErrVisit
    /\ Len(events[Len(events)].fullPath) > 4

\* ------------------------------------------------ properties of Readdir

Min(a, b) == IF a < b THEN a ELSE b

\* The children, in creation order, of the entry the user's file is open on.
UserChildren == fs[uf[1].m][uf[1].f.fileEntry].children

\* C10: the entries the Readdir calls on one file returned so far are, in
\* order, a prefix of the children in creation order, and the cursor holds
\* the rest; a call with nothing left returns io.EOF and no entry; a call
\* with entries left returns no error and the first min(count, left) of
\* them for count > 0, all of them for count <= 0.
C10_ReaddirPages ==
    wpc = "use" =>
        /\ got = SubSeq(UserChildren, 1, Len(got))
        /\ got \o uf[1].f.children = UserChildren
        /\ last # <<>> =>
              LET c == last[1]
                  left == Len(c.before)
              IN  /\ left = 0 => (c.err = ErrEOF /\ c.ret = <<>>)
                  /\ left > 0 => c.err = ErrNil
                  /\ (left > 0 /\ c.count > 0) =>
                         c.ret = SubSeq(c.before, 1, Min(c.count, left))
                  /\ (left > 0 /\ c.count <= 0) => c.ret = c.before
                  /\ (c.before = UserChildren /\ c.count <= 0 /\ left > 0) =>
                         got = UserChildren

\* Three children were listed by several calls, the last of which asked for
\* two entries when one was left.
C10_Witness ==
    /\ wpc = "use"
    /\ Len(UserChildren) = 3
    /\ got = UserChildren
    /\ last # <<>>
    /\ last[1].count = 2
    /\ Len(last[1].ret) = 1

\* ------------------------------------------- properties of open files

\* The decoded content of the entry a client's file is open on.
ContentOf(c) ==
    LET e == fs[uf[clients[c].h].m][uf[clients[c].h].f.fileEntry]
    IN  IF e.buf.isNil THEN <<>>
        ELSE IF e.gzipped THEN Gunzip(e.buf.bytes) ELSE e.buf.bytes

\* C11: whatever the other clients do with their files, the bytes a client
\* has read are the start of the entry's content and its reader stands right
\* behind them (at the end once it closed the file), the entries it has
\* listed followed by those its cursor still holds are the entry's children,
\* and the entry's children are what they were when the file was opened.
C11_HandlesIndependent ==
    \A c \in DOMAIN clients :
        clients[c].h # 0 =>
            LET f == uf[clients[c].h].f
                e == fs[uf[clients[c].h].m][f.fileEntry]
            IN  /\ clients[c].read = SubSeq(ContentOf(c), 1, Len(clients[c].read))
                /\ f.off = IF clients[c].closed THEN Len(ContentOf(c))
                           ELSE Len(clients[c].read)
                /\ clients[c].listed \o f.children = e.children
                /\ e.children = clients[c].kids

\* Two clients hold files on the same entries: on a file of which one read
\* a byte and closed while the other read all, or on a directory of which
\* one listed one entry and the other listed both.
C11_Witness ==
    /\ wpc = "use"
    /\ clients[1].h # 0
    /\ clients[2].h # 0
    /\ uf[clients[1].h].f.fileEntry = uf[clients[2].h].f.fileEntry
    /\ \/ /\ Len(clients[1].read) = 1
          /\ clients[1].closed
          /\ Len(clients[2].read) = 2
          /\ clients[2].read = ContentOf(2)
       \/ /\ Len(clients[1].listed) = 1
          /\ Len(clients[2].listed) = 2
          /\ clients[2].listed = clients[2].kids

\* --------------------------------------------- properties of the builder

\* The last builder call on the tree under study.
LastCall == call[1]

Creators == {"Mkdir", "WriteFile", "WriteGzipFile"}

\* The path of the directory that is to hold the entry of path p, and the
\* name of that entry.
ParentPath(p) == PathSplit(Clean(<<Slash>> \o p)).dir

BaseName(p) == PathSplit(Clean(<<Slash>> \o p)).base

\* The parent path of p resolves to a directory of the tree t and the path
\* p has no entry in t.
MayCreate(t, p) ==
    /\ findEntry(t, ParentPath(p)) # NoEntry
    /\ t[findEntry(t, ParentPath(p))].isDir
    /\ findEntry(t, p) = NoEntry

\* The tree t2 is the tree t with one entry more, which is the last child
\* of the entry d and carries the name base; nothing else differs.
OneAddedLast(t, t2, d, base) ==
    /\ Len(t2) = Len(t) + 1
    /\ t2[Len(t2)].name = base
    /\ t2[Len(t2)].children = <<>>
    /\ t2[d] = [t[d] EXCEPT !.children = Append(@, Len(t2))]
    /\ \A i \in DOMAIN t : i # d => t2[i] = t[i]

\* C12: a call of Mkdir, WriteFile or WriteGzipFile whose parent path
\* resolves to a directory and whose path has no entry yet adds exactly one
\* entry, last among its parent's children, a directory for Mkdir and a
\* file otherwise; every other call, the one on the root path included,
\* panics and leaves the tree as it was.
C12_CreateOneOrPanic ==
    (call # <<>> /\ LastCall.op \in Creators) =>
        IF MayCreate(LastCall.before, LastCall.fullPath)
        THEN /\ ~panicked
             /\ OneAddedLast(LastCall.before, fs[1],
                             findEntry(LastCall.before,
                                       ParentPath(LastCall.fullPath)),
                             BaseName(LastCall.fullPath))
             /\ fs[1][Len(fs[1])].isDir = (LastCall.op = "Mkdir")
        ELSE /\ panicked
             /\ fs[1] = LastCall.before

\* C13: after MkdirAll(path) the path opens without error as a directory,
\* and the tree is the one before the call when the path was a directory
\* already.
C13_MkdirAllMakesDirectory ==
    (call # <<>> /\ LastCall.op = "MkdirAll") =>
        LET r == Open(fs[1], LastCall.fullPath)
            was == findEntry(LastCall.before, LastCall.fullPath)
        IN  /\ ~panicked
            /\ r.err = ErrNil
            /\ fs[1][r.file.fileEntry].isDir
            /\ (was # NoEntry /\ LastCall.before[was].isDir)
                   => fs[1] = LastCall.before

\* Some component of the path p is an entry of the tree t that is not a
\* directory.
ThroughFile(t, p) ==
    \E k \in 1..Len(fullPathSplit(p)) :
        LET e == findEntryFrom(t, 1, SubSeq(fullPathSplit(p), 1, k))
        IN  e # NoEntry /\ ~t[e].isDir

\* C14: MkdirAll on a path of which a component is a file panics and leaves
\* the tree as it was, and no entry that is not a directory has children.
C14_MkdirAllStopsAtFile ==
    /\ (call # <<>> /\ LastCall.op = "MkdirAll"
          /\ ThroughFile(LastCall.before, LastCall.fullPath))
           => (panicked /\ fs[1] = LastCall.before)
    /\ \A e \in DOMAIN fs[1] : ~fs[1][e].isDir => fs[1][e].children = <<>>

\* C15: after a WriteFile that did not panic, opening the path and reading
\* to the end gives the bytes written; after a WriteGzipFile of a valid
\* payload that did not panic, it gives the bytes the payload decodes to.
C15_WriteReadRoundTrip ==
    (call # <<>> /\ ~panicked) =>
        LET r == Open(fs[1], LastCall.fullPath)
        IN  /\ LastCall.op = "WriteFile" =>
                  (r.err = ErrNil /\ ReadAll(r.file) = LastCall.contents)
            /\ (LastCall.op = "WriteGzipFile" /\ GunzipOk(LastCall.contents)) =>
                  (r.err = ErrNil /\ ReadAll(r.file) = Gunzip(LastCall.contents))

\* C16: Size() of an entry returns, without a panic, 0 for a directory and
\* the length of the decoded content for a file.
C16_SizeIsDecodedLength ==
    \A e \in DOMAIN fs[1] :
        (fs[1][e].gzipped => GunzipOk(fs[1][e].buf.bytes)) =>
            /\ ~Size(fs[1], e).panic
            /\ Size(fs[1], e).size =
                   IF fs[1][e].isDir THEN 0
                   ELSE IF fs[1][e].gzipped THEN Len(Gunzip(fs[1][e].buf.bytes))
                   ELSE Len(fs[1][e].buf.bytes)

\* C17: WriteGzipFile panics or not whatever the payload holds, and after a
\* WriteGzipFile of an invalid payload that did not panic, Open of the path
\* returns an error.
C17_InvalidPayloadFailsAtOpen ==
    (call # <<>> /\ LastCall.op = "WriteGzipFile") =>
        /\ panicked = Mkdir(LastCall.before, LastCall.fullPath).panic
        /\ (~panicked /\ ~GunzipOk(LastCall.contents)) =>
               Open(fs[1], LastCall.fullPath).err # ErrNil

\* --------------------------------------------- properties of fullPathSplit

\* The components of the absolute path "/" + s, read from the left: st
\* holds the components so far and cur the characters of the one being
\* read; an empty component and "." are dropped, ".." removes the component
\* before it and is dropped at the root.
RECURSIVE Components(_, _, _)
Components(s, cur, st) ==
    LET st2 == IF cur = <<>> \/ cur = <<Dot>> THEN st
               ELSE IF cur = <<Dot, Dot>>
               THEN (IF st = <<>> THEN st ELSE SubSeq(st, 1, Len(st) - 1))
               ELSE Append(st, cur)
    IN  IF s = <<>> THEN st2
        ELSE IF Head(s) = Slash THEN Components(Tail(s), <<>>, st2)
        ELSE Components(Tail(s), Append(cur, Head(s)), st)

\* C18: fullPathSplit(p) is the component sequence of the absolute path
\* "/" + p with ".", "..", doubled and trailing separators resolved; no
\* component is empty, ".", ".." or holds a separator; and splitting the
\* components joined by separators gives the same components again.
C18_SplitNormalizes ==
    /\ split # <<>> /\ split[1].pc # "start" =>
          /\ split[1].parts = Components(split[1].p, <<>>, <<>>)
          /\ \A i \in DOMAIN split[1].parts :
                /\ split[1].parts[i] \notin {<<>>, <<Dot>>, <<Dot, Dot>>}
                /\ Slash \notin Range(split[1].parts[i])
    /\ split # <<>> /\ split[1].pc = "again" =>
          split[1].again = split[1].parts

\* A path without leading separator that climbs above the root and then
\* names a component was split, and its components were split again; so
\* was a path of two components.
C18_Witness ==
    /\ split # <<>>
    /\ split[1].pc = "again"
    /\ \/ /\ Len(split[1].p) > 3
          /\ SubSeq(split[1].p, 1, 3) = <<Dot, Dot, Slash>>
          /\ Len(split[1].parts) = 1
       \/ /\ Len(split[1].parts) = 2
          /\ split[1].parts[1] # split[1].parts[2]

\* ------------------------------------- properties of Resolve's arguments

RootLevel(ev) == PathSplit(ev.fullPath).dir = <<Slash>>

\* C20 as stated: among the visits of one module no file of a subdirectory
\* comes before a root-level file, and the files of each of the two groups
\* are visited in the order they were created.
C20_SubdirectoriesAfterRootFiles ==
    \A i, j \in DOMAIN events :
        (i < j /\ events[i].m = events[j].m) =>
            /\ ~(~RootLevel(events[i]) /\ RootLevel(events[j]))
            /\ RootLevel(events[i]) = RootLevel(events[j])
                   => events[i].fileEntry < events[j].fileEntry

\* C20: the visits so far are, in order, the first files of the listing
\* that takes the modules in list order and each directory's children in
\* creation order, a subdirectory's files at the place of the subdirectory:
\* after the files created before it in its parent and before the files
\* created after it.
C20_VisitsInListingOrder ==
    /\ Len(Visits) <= Len(Expected(ml, ext))
    /\ Visits = SubSeq(Expected(ml, ext), 1, Len(Visits))

\* Walk has returned without error after visiting a file of a subdirectory
\* and then a root-level file of the same module.
C20_Witness ==
    /\ wpc = "done"
    /\ walkErr = ErrNil
    /\ \E i, j \in DOMAIN events :
          /\ i < j
          /\ events[i].m = events[j].m
          /\ ~RootLevel(events[i])
          /\ RootLevel(events[j])

\* ------------------------------------- properties of the modules walked

\* C21: every call of walkDir, every file opened and every call of the
\* visit function is for a module that is an element of the list, and the
\* file handed to the visit function is the entry its path names in that
\* module's own tree; a module that the list only requires is never walked.
C21_WalksListedModulesOnly ==
    /\ \A i \in DOMAIN stack : stack[i].m \in Range(ml)
    /\ \A i \in DOMAIN handles : handles[i].m \in Range(ml)
    /\ \A i \in DOMAIN events :
          /\ events[i].m \in Range(ml)
          /\ findEntry(fs[events[i].m], events[i].fullPath) = events[i].fileEntry

\* Walk has returned without error after a visit, on a list whose module
\* requires a module that is not in the list and holds a file of the
\* extension.
C21_Witness ==
    /\ wpc = "done"
    /\ walkErr = ErrNil
    /\ events # <<>>
    /\ \E m \in Range(ml) : \E q \in Range(requires[m]) :
          /\ q \notin Range(ml)
          /\ Expected(<<q>>, ext) # <<>>

\* ------------------------------------------------ properties of the tree

\* The entries of the tree t that hold entry e among their children, once
\* for each time they hold it.
ParentLinks(t, e) ==
    {<<d, i>> \in (DOMAIN t) \X (DOMAIN t) :
        i \in DOMAIN t[d].children /\ t[d].children[i] = e}

\* C22: after every builder call, one that panicked included, entry 1 is
\* the root, a directory that is no entry's child; every other entry is a
\* child of exactly one entry and has a name that is not empty and holds no
\* separator; and no two children of an entry have the same name.
C22_TreeWellFormed ==
    /\ fs[1][1].isDir
    /\ ParentLinks(fs[1], 1) = {}
    /\ \A e \in (DOMAIN fs[1]) \ {1} :
          /\ Cardinality(ParentLinks(fs[1], e)) = 1
          /\ fs[1][e].name # <<>>
          /\ Slash \notin Range(fs[1][e].name)
    /\ \A d \in DOMAIN fs[1] :
          \A i, j \in DOMAIN fs[1][d].children :
              i # j => fs[1][fs[1][d].children[i]].name
                           # fs[1][fs[1][d].children[j]].name

\* ------------------------------------------- properties of a whole walk

\* C23: when Walk has returned on modules that were built without a panic
\* and hold valid content only, and no call of the visit function returned
\* an error, Walk returned nil and every file of the extension of every
\* module of the list was visited; a directory without children, the root
\* of a module without files included, changes nothing in that.
C23_WalkCompletes ==
    (wpc = "done" /\ ~panicked /\ AllReadable /\ ErrVisit \notin Range(raised))
        => /\ walkErr = ErrNil
           /\ \A i \in DOMAIN Expected(ml, ext) :
                 \E j \in DOMAIN Visits : Visits[j] = Expected(ml, ext)[i]

\* ------------------------------------ properties of Resolve's recursion

\* Some module that the list r reaches requires itself, directly or through
\* other modules.
CyclicFrom(reqs, r) ==
    \E m \in Reach(reqs, Range(r)) : m \in DepsOf(reqs, m)

\* C24: when no module reachable from the input is on a cycle, Resolve
\* returns, and returns what the recursion defines; when one is, Resolve
\* never returns and its calls nest beyond every depth.
C24_TerminatesIffAcyclic ==
    /\ (~CyclicFrom(requires, input)) ~> (rpc = "resolved")
    /\ [](rpc = "resolved" =>
             (~CyclicFrom(requires, input) /\ ret = Resolve(requires, input)))
    /\ CyclicFrom(requires, input) ~> (rpc = "overflow")

\* The calls have nested beyond every depth of an acyclic graph on an input
\* whose first module requires nothing and whose second module is on a
\* cycle through another module.
C24_Witness ==
    /\ rpc = "overflow"
    /\ Len(input) = 2
    /\ requires[Sort(input)[1]] = <<>>
    /\ \E m \in Range(input), q \in Modules :
          /\ q # m
          /\ q \in Range(requires[m])
          /\ m \in Range(requires[q])
          /\ m \notin Range(requires[m])

====
